---- MODULE Spec2Model ----
(***************************************************************************)
(* A model of the world-tree services:                                     *)
(*   - the state bridge service (crates/state_bridge): the canonical root  *)
(*     watcher WorldTreeRoot, its broadcast channel, the StateBridge       *)
(*     workers and StateBridgeService.spawn;                               *)
(*   - the sync tasks of WorldTree and ClaimStorage;                       *)
(*   - CustomRetryPolicy and the retry client it is plugged into;          *)
(*   - the join loop of the tree availability service binary.              *)
(* Each subsystem has its own specification over the shared variables.     *)
(***************************************************************************)
EXTENDS Integers, Sequences, FiniteSets, TLC

\* ------------------------------------------------------------ bounds
NumBridges == 1       \* state bridges that may be added to the service
MaxEvents == 2        \* TreeChanged events the canonical chain emits
NumRoots == 2         \* distinct root values inserted
ChannelCapacity == 2  \* slots of the root broadcast channel (scaled)
ListenEvents == 3     \* TreeChanged events emitted while a listener runs
RelayingPeriod == 1   \* relaying_period, in clock ticks
MaxHead == 3          \* blocks the synced chain grows to
WindowSize == 1       \* window_size of the block scanners
U64Bits == 4          \* width of u64 (scaled from 64)
NumTasks == 3         \* task handles the availability service returns
LimbBase == 4         \* radix of one limb of a root (scaled from 2^64)
HistorySize == 1      \* tree_history_size H: deltas TreeData retains
NumIdentities == 2    \* distinct identity commitments
MaxBatches == 3       \* batches applied to a TreeData on its own

\* U256 and ruint::Uint<256, 4> both hold four limbs.
NumLimbs == 4

VARIABLES
    chain,       \* TreeChanged events emitted by the identity manager, in order
    svc,         \* StateBridgeService: pc, state_bridges, handles, result of spawn
    wt,          \* root watcher task: pc, stream start, next event to yield
    published,   \* every root handed to root_tx.send, in call order
    sent,        \* the roots the broadcast channel accepted (positions 1..tail),
                 \* each with the index in `published` of the send that queued it
    br,          \* per bridge: task pc, receiver cursor, relay state
    downstream,  \* per bridge: latestRoot of its BridgedWorldID
    ls           \* a listener on the channel: task pc, receiver cursor, roots got

bridgeVars == <<chain, svc, wt, published, sent, br, downstream, ls>>

VARIABLES
    blocks,      \* per block of the synced chain: the kind of log it carries
    tu,          \* WorldTree sync task and its TreeUpdater (synced, cursor)
    cu,          \* ClaimStorage sync task and its ClaimUpdater (cursor)
    td           \* TreeData of the WorldTree: base tree, history of deltas

syncVars == <<blocks, tu, cu, td>>

VARIABLES
    pol,         \* last error given to CustomRetryPolicy, with its answers
    rq           \* one request through the retry client

retryVars == <<pol, rq>>

VARIABLES
    tasks,       \* the service's task handles: running, ok, err or panic
    mn           \* main of the binary: pc, handles already yielded, log

mainVars == <<tasks, mn>>

vars == <<bridgeVars, syncVars, retryVars, mainVars>>

Bridges == 1..NumBridges
NoRoot == -1
GenesisRoot == 0
Roots == {LimbBase * i + i : i \in 1..NumRoots}

\* ------------------------------------------------------------ helpers
RECURSIVE Pow(_, _)
Pow(b, e) == IF e = 0 THEN 1 ELSE b * Pow(b, e - 1)

\* U256.0 : the little-endian limbs of a 256-bit value.
U256Limbs(v) == [i \in 1..NumLimbs |-> (v \div Pow(LimbBase, i - 1)) % LimbBase]

RECURSIVE LimbSum(_, _)
LimbSum(l, i) ==
    IF i > NumLimbs THEN 0 ELSE l[i] * Pow(LimbBase, i - 1) + LimbSum(l, i + 1)

\* Mutant: the limbs read most significant first.
UintFromLimbsBigEndian(l) == LimbSum([i \in 1..NumLimbs |-> l[NumLimbs + 1 - i]], 1)

\* Uint::from_limbs : little-endian limbs to a value.
UintFromLimbs(l) == LimbSum(l, 1)

\* latestRoot() of the identity manager: the postRoot of its last event.
LatestRoot ==
    IF chain = <<>> THEN GenesisRoot
    ELSE UintFromLimbs(chain[Len(chain)].post_root)

\* The event TreeChanged(preRoot, kind, postRoot) emitted by insert_root(r).
TreeChangedEvent(r) ==
    [pre_root |-> U256Limbs(LatestRoot), kind |-> 0, post_root |-> U256Limbs(r)]

\* Receivers currently alive on the broadcast channel: those of the running
\* bridges, and the listener's once it has subscribed.
Receivers == {b \in Bridges : br[b].pc \in {"Idle", "Cooling", "Relaying"}}
NoReceivers == Receivers = {} /\ ls.pc = "unsubscribed"

\* Mutant: the channel keeps the newest root at the front.
BroadcastSendFront(root) ==
    /\ published' = Append(published, root)
    /\ sent' = IF NoReceivers THEN sent
               ELSE <<[root |-> root, seq |-> Len(published) + 1]>> \o sent

\* root_tx.send(root): the value is queued unless no receiver is alive, in
\* which case send returns an error (discarded by `let _ =`).
BroadcastSend(root) ==
    /\ published' = Append(published, root)
    /\ sent' = IF NoReceivers THEN sent
               ELSE Append(sent, [root |-> root, seq |-> Len(published) + 1])

\* ------------------------------------------------------------ canonical chain
\* insert_root(r) on the identity manager: emits TreeChanged.
InsertRoot ==
    /\ Len(chain) < MaxEvents
    /\ \E r \in Roots : chain' = Append(chain, TreeChangedEvent(r))
    /\ UNCHANGED <<syncVars, retryVars, mainVars, ls, svc, wt, published, sent, br, downstream>>

\* ------------------------------------------------------------ service
NewBridgeState ==
    [pc |-> "unspawned", rxnext |-> 0, root |-> NoRoot,
     last_relayed_root |-> NoRoot, elapsed |-> RelayingPeriod,
     received |-> <<>>, lagged |-> FALSE, relay_gaps |-> <<>>,
     sub |-> [pos |-> 0, seq |-> 0]]

\* StateBridgeService::new
ServiceNew ==
    [pc |-> "new", state_bridges |-> 0, handles |-> <<>>, result |-> "none",
     spawned |-> 0, returnedAt |-> 0, publishedAt |-> 0]

\* Mutant: a handle is put in front of those recorded so far.
PushHandleFront(handles, h) == <<h>> \o handles

\* self.handles.push(h)
PushHandle(handles, h) == Append(handles, h)

\* add_state_bridge: state_bridges.push(state_bridge)
AddStateBridge ==
    /\ svc.pc = "new"
    /\ svc.state_bridges < NumBridges
    /\ svc' = [svc EXCEPT !.state_bridges = @ + 1]
    /\ UNCHANGED <<syncVars, retryVars, mainVars, ls, chain, wt, published, sent, br, downstream>>

\* spawn, first statement: handles.push(canonical_root.spawn().await);
\* WorldTreeRoot::spawn hands the watcher to tokio::spawn.
SpawnRoot ==
    /\ svc.pc = "new"
    /\ svc' = [svc EXCEPT !.pc = "spawning", !.handles = PushHandle(@, [task |-> "root", id |-> 0])]
    /\ wt' = [wt EXCEPT !.pc = "spawned"]
    /\ UNCHANGED <<syncVars, retryVars, mainVars, ls, chain, published, sent, br, downstream>>

\* Mutant: the receiver starts at the head of the channel.
SubscribeFromStart == Len(<<>>)

\* root_tx.subscribe(): a new receiver sees only values sent after this call.
Subscribe == Len(sent)

\* spawn, loop body: handles.push(bridge.spawn(root_tx.subscribe()).await)
SpawnBridge ==
    /\ svc.pc = "spawning"
    /\ svc.spawned < svc.state_bridges
    /\ LET b == svc.spawned + 1 IN
         /\ svc' = [svc EXCEPT !.spawned = b,
                               !.handles = PushHandle(@, [task |-> "bridge", id |-> b])]
         /\ br' = [br EXCEPT ![b] = [@ EXCEPT !.pc = "Idle", !.rxnext = Subscribe,
                                              !.sub = [pos |-> Subscribe,
                                                       seq |-> Len(published)]]]
    /\ UNCHANGED <<syncVars, retryVars, mainVars, ls, chain, wt, published, sent, downstream>>

\* Mutant: spawn hands a failure of the watcher back to its caller.
SpawnResultWatcherError == IF wt.pc = "done_err" THEN "err" ELSE "ok"

\* The value spawn returns.
SpawnResult == "ok"

\* spawn, last statement: Ok(())
SpawnReturn ==
    /\ svc.pc = "spawning"
    /\ svc.spawned = svc.state_bridges
    /\ svc' = [svc EXCEPT !.pc = "returned", !.result = SpawnResult,
                          !.returnedAt = Len(chain), !.publishedAt = Len(published)]
    /\ UNCHANGED <<syncVars, retryVars, mainVars, ls, chain, wt, published, sent, br, downstream>>

\* ------------------------------------------------------------ root watcher
\* filter.stream().await? : the subscription is created; it yields the events
\* emitted from now on.  A middleware error ends the task with that error.
WatcherStream ==
    /\ wt.pc = "spawned"
    /\ \/ wt' = [wt EXCEPT !.pc = "streaming", !.start = Len(chain), !.next = Len(chain)]
       \/ wt' = [wt EXCEPT !.pc = "done_err"]
    /\ UNCHANGED <<syncVars, retryVars, mainVars, ls, chain, svc, published, sent, br, downstream>>

\* Mutant: the watcher publishes the event's preRoot.
PublishedRootPre(event) == UintFromLimbs(event.pre_root)

\* The value the watcher publishes for an event.
PublishedRoot(event) == UintFromLimbs(event.post_root)

\* Mutant: a send that found no receiver ends the watcher with an error.
AfterSendFailsOnError(w) ==
    IF NoReceivers THEN [w EXCEPT !.pc = "done_err"] ELSE [w EXCEPT !.next = @ + 1]

\* let _ = root_tx.send(..): the result of the send is dropped and the loop
\* goes on to the next event.
AfterSend(w) == [w EXCEPT !.next = @ + 1]

\* while let Some(Ok((event, _))) = event_stream.next().await { send(postRoot) }
WatcherEvent ==
    /\ wt.pc = "streaming"
    /\ wt.next < Len(chain)
    /\ BroadcastSend(PublishedRoot(chain[wt.next + 1]))
    /\ wt' = AfterSend(wt)
    /\ UNCHANGED <<syncVars, retryVars, mainVars, ls, chain, svc, br, downstream>>

\* Mutant: the watcher goes back to creating the subscription.
AfterStreamEndResubscribe(item) == "spawned"

\* Mutant: an error item ends the watcher with that error.
AfterStreamEndErrOnErrItem(item) == IF item = "Err" THEN "done_err" ELSE "done_ok"

\* What event_stream.next() yields when it is not Some(Ok(_)): None, the end
\* of the stream, or Some(Err(_)), an error item.
StreamItems == {"None", "Err"}

\* The pc of the watcher once the stream yields None or Some(Err(_)).
AfterStreamEnd(item) == "done_ok"

\* The stream yields None or an error item: the loop ends, the task returns Ok(()).
WatcherStreamEnd ==
    /\ wt.pc = "streaming"
    /\ \E item \in StreamItems :
         wt' = [wt EXCEPT !.pc = AfterStreamEnd(item), !.ended = TRUE, !.item = item]
    /\ UNCHANGED <<syncVars, retryVars, mainVars, ls, chain, svc, published, sent, br, downstream>>

\* Mutant: a receiver that lagged is moved to the newest value.
RecvOutcomeLatest(next) ==
    IF Len(sent) - next > ChannelCapacity
    THEN [kind |-> "Lagged", next |-> Len(sent) - 1, pos |-> 0]
    ELSE [kind |-> "Ok", next |-> next + 1, pos |-> next + 1]

\* ------------------------------------------------------------ broadcast receive
\* Mutant: a receive that leaves the cursor where it was.
RecvOutcomeNoAdvance(next) ==
    IF Len(sent) - next > ChannelCapacity
    THEN [kind |-> "Lagged", next |-> Len(sent) - ChannelCapacity, pos |-> 0]
    ELSE [kind |-> "Ok", next |-> next, pos |-> next + 1]

\* root_rx.recv().await with something to return: a receiver that fell more
\* than the capacity behind gets Err(Lagged) and its cursor moves to the oldest
\* retained value; otherwise it gets the value at its cursor and advances.
RecvOutcome(next) ==
    IF Len(sent) - next > ChannelCapacity
    THEN [kind |-> "Lagged", next |-> Len(sent) - ChannelCapacity, pos |-> 0]
    ELSE [kind |-> "Ok", next |-> next + 1, pos |-> next + 1]

\* ------------------------------------------------------------ listener
\* The subscriber of listen_and_propagate_root: it takes roots off its
\* receiver until one is the root it waits for.
TestRoot == LimbBase + 1

\* No subscription yet.  `received` notes each root got: its place in the
\* channel, the channel's tail then, and, when the receive before it was
\* Lagged, the tail at that time (0 otherwise).
ListenerNew ==
    [pc |-> "unsubscribed", rxnext |-> 0, received |-> <<>>, lagged |-> FALSE,
     lag_tail |-> 0]

\* tree_root.spawn().await: the watcher is handed to tokio::spawn.
ListenSpawnRoot ==
    /\ wt.pc = "unspawned"
    /\ svc.pc = "new"
    /\ wt' = [wt EXCEPT !.pc = "spawned"]
    /\ UNCHANGED <<syncVars, retryVars, mainVars, chain, svc, published, sent, br,
                   downstream, ls>>

\* mock_world_id.insert_root(test_root), and whatever else the chain emits.
ListenInsertRoot ==
    /\ wt.pc # "unspawned"
    /\ Len(chain) < ListenEvents
    /\ \E r \in Roots : chain' = Append(chain, TreeChangedEvent(r))
    /\ UNCHANGED <<syncVars, retryVars, mainVars, svc, wt, published, sent, br,
                   downstream, ls>>

\* let mut root_rx = tree_root.root_tx.subscribe(); the loop task is spawned.
ListenSubscribe ==
    /\ wt.pc # "unspawned"
    /\ ls.pc = "unsubscribed"
    /\ ls' = [ls EXCEPT !.pc = "recv", !.rxnext = Subscribe]
    /\ UNCHANGED <<syncVars, retryVars, mainVars, chain, svc, wt, published, sent, br,
                   downstream>>

\* while let Ok(root) = root_rx.recv().await: an error (Lagged) leaves the
\* inner loop for the outer sleep; the awaited root breaks out of it as well;
\* any other root is followed by sleep(relaying_period).
ListenRecv ==
    /\ ls.pc = "recv"
    /\ ls.rxnext < Len(sent)
    /\ LET o == RecvOutcome(ls.rxnext) IN
         ls' = IF o.kind = "Lagged"
               THEN [ls EXCEPT !.rxnext = o.next, !.lagged = TRUE, !.pc = "rest",
                               !.lag_tail = Len(sent)]
               ELSE [ls EXCEPT !.rxnext = o.next,
                               !.received = Append(@, [root |-> sent[o.pos].root,
                                                       seq |-> sent[o.pos].seq,
                                                       pos |-> o.pos,
                                                       tail |-> Len(sent),
                                                       latest |-> Len(published),
                                                       lag_tail |-> ls.lag_tail]),
                               !.lag_tail = 0,
                               !.pc = IF sent[o.pos].root = TestRoot
                                      THEN "rest" ELSE "pause"]
    /\ UNCHANGED <<syncVars, retryVars, mainVars, chain, svc, wt, published, sent, br,
                   downstream>>

\* tokio::time::sleep(relaying_period).await is over: the next recv.
ListenPauseOver ==
    /\ ls.pc = "pause"
    /\ ls' = [ls EXCEPT !.pc = "recv"]
    /\ UNCHANGED <<syncVars, retryVars, mainVars, chain, svc, wt, published, sent, br,
                   downstream>>

\* tokio::time::sleep(Duration::from_secs(5)).await is over: the outer loop
\* enters the inner one again.
ListenRestOver ==
    /\ ls.pc = "rest"
    /\ ls' = [ls EXCEPT !.pc = "recv"]
    /\ UNCHANGED <<syncVars, retryVars, mainVars, chain, svc, wt, published, sent, br,
                   downstream>>

\* ------------------------------------------------------------ state bridge
\* Loop steps 1-3: receive the next root; a root equal to last_relayed_root is
\* skipped, any other root is held while the relaying period runs out.
BridgeRecv(b) ==
    /\ br[b].pc = "Idle"
    /\ br[b].rxnext < Len(sent)
    /\ LET o == RecvOutcome(br[b].rxnext) IN
         br' = [br EXCEPT ![b] =
                  IF o.kind = "Lagged"
                  THEN [@ EXCEPT !.rxnext = o.next, !.lagged = TRUE]
                  ELSE [@ EXCEPT !.rxnext = o.next,
                                 !.received = Append(@, sent[o.pos]),
                                 !.root = sent[o.pos].root,
                                 !.pc = IF sent[o.pos].root = br[b].last_relayed_root
                                        THEN "Idle" ELSE "Cooling"]]
    /\ UNCHANGED <<syncVars, retryVars, mainVars, ls, chain, svc, wt, published, sent, downstream>>

\* Mutant: the bridge does not wait for the relaying period.
PeriodElapsedAlways(b) == TRUE

\* Loop step 3: now - last_relay_instant >= relaying_period (no relay yet
\* counts as elapsed).
PeriodElapsed(b) == br[b].elapsed >= RelayingPeriod

\* Loop steps 3-5: once relaying_period has elapsed since the last relay, read
\* the downstream latestRoot; if it already is the root, note it and go back to
\* waiting, otherwise send propagateRoot().
BridgeDispatch(b) ==
    /\ br[b].pc = "Cooling"
    /\ PeriodElapsed(b)
    /\ br' = [br EXCEPT ![b] =
                IF downstream[b] = br[b].root
                THEN [@ EXCEPT !.pc = "Idle", !.last_relayed_root = br[b].root]
                ELSE [@ EXCEPT !.pc = "Relaying"]]
    /\ UNCHANGED <<syncVars, retryVars, mainVars, ls, chain, svc, wt, published, sent, downstream>>

\* Loop step 6, success: propagateRoot() is included; the bridged contract now
\* holds the canonical latestRoot.  relay_gaps notes the time since the
\* previous relay (the clock stops counting at relaying_period).
BridgeRelayed(b) ==
    /\ br[b].pc = "Relaying"
    /\ downstream' = [downstream EXCEPT ![b] = LatestRoot]
    /\ br' = [br EXCEPT ![b] = [@ EXCEPT !.pc = "Idle",
                                         !.last_relayed_root = br[b].root,
                                         !.relay_gaps = Append(@, br[b].elapsed),
                                         !.elapsed = 0]]
    /\ UNCHANGED <<syncVars, retryVars, mainVars, ls, chain, svc, wt, published, sent>>

\* Loop step 6, non-retriable failure: the bridge task ends with the error
\* (its receiver is dropped with it).
BridgeRelayFailed(b) ==
    /\ br[b].pc = "Relaying"
    /\ br' = [br EXCEPT ![b] = [@ EXCEPT !.pc = "done_err"]]
    /\ UNCHANGED <<syncVars, retryVars, mainVars, ls, chain, svc, wt, published, sent, downstream>>

\* Time passes: one tick on the clock every bridge measures its period with.
Tick ==
    /\ \E b \in Bridges : br[b].pc # "unspawned" /\ br[b].elapsed < RelayingPeriod
    /\ br' = [b \in Bridges |->
                IF br[b].elapsed < RelayingPeriod
                THEN [br[b] EXCEPT !.elapsed = @ + 1] ELSE br[b]]
    /\ UNCHANGED <<syncVars, retryVars, mainVars, ls, chain, svc, wt, published, sent, downstream>>

\* ------------------------------------------------------------ bridge system
InitBridge ==
    /\ chain = <<>>
    /\ svc = ServiceNew
    /\ wt = [pc |-> "unspawned", start |-> 0, next |-> 0, ended |-> FALSE,
             item |-> "none"]
    /\ published = <<>>
    /\ sent = <<>>
    /\ br = [b \in Bridges |-> NewBridgeState]
    /\ downstream = [b \in Bridges |-> GenesisRoot]
    /\ ls = ListenerNew

NextBridge ==
    \/ InsertRoot
    \/ AddStateBridge
    \/ SpawnRoot
    \/ SpawnBridge
    \/ SpawnReturn
    \/ WatcherStream
    \/ WatcherEvent
    \/ WatcherStreamEnd
    \/ \E b \in Bridges : BridgeRecv(b)
    \/ \E b \in Bridges : BridgeDispatch(b)
    \/ \E b \in Bridges : BridgeRelayed(b)
    \/ \E b \in Bridges : BridgeRelayFailed(b)
    \/ Tick

\* ------------------------------------------------------------ tree data
\* A tree of depth 1: two leaves under the root.
NumLeaves == 2
LeafIndices == 0..(NumLeaves - 1)

\* The zero hash, the canonical empty leaf.
EmptyLeaf == 0

Identities == 1..NumIdentities
LeafValues == {EmptyLeaf} \cup Identities

\* The hash of two children, collision-free: the pair numbered in the radix
\* of the leaf values.
HashBase == NumIdentities + 1
Hash(l, r) == 1 + l + HashBase * r

\* The root of a tree given by its leaves.
TreeRoot(leaves) == Hash(leaves[0], leaves[1])

EmptyTree == [i \in LeafIndices |-> EmptyLeaf]

\* Batch update: the (index, value) pairs applied in order.
RECURSIVE ApplyUpdates(_, _)
ApplyUpdates(leaves, updates) ==
    IF updates = <<>> THEN leaves
    ELSE ApplyUpdates([leaves EXCEPT ![updates[1].index] = updates[1].value],
                      Tail(updates))

\* The batches a caller may pass: one pair, or one pair per leaf.
UpdatesOver(values) ==
    {<<[index |-> i, value |-> v]>> : i \in LeafIndices, v \in values}
    \cup {<<[index |-> 0, value |-> v], [index |-> 1, value |-> w]>> :
            v \in values, w \in values}

\* TreeData::new(tree, tree_history_size): the base tree, no deltas yet.
\* `roots` notes every root the TreeData has had, the current one last.
TreeDataNew == [tree |-> EmptyTree, history |-> <<>>, roots |-> <<TreeRoot(EmptyTree)>>]

\* The tree after the first k deltas of the history.
RECURSIVE Snapshot(_, _)
Snapshot(t, k) ==
    IF k = 0 THEN t.tree
    ELSE ApplyUpdates(Snapshot(t, k - 1), t.history[k].leaf_updates)

\* The live tree: the base tree with every retained delta applied.
LiveTree(t) == Snapshot(t, Len(t.history))

CurrentRoot(t) == TreeRoot(LiveTree(t))

\* Mutant: the oldest delta is dropped without being applied to the base.
SquashDrop(tree, delta) == tree

\* The oldest delta is squashed into the base tree.
Squash(tree, delta) == ApplyUpdates(tree, delta.leaf_updates)

\* Mutant: one delta fewer is retained.
OverCapacityEarly(history) == Len(history) > HistorySize - 1

\* The history holds more than its capacity H.
OverCapacity(history) == Len(history) > HistorySize

\* append(updates): the batch is applied to the live tree and noted as a new
\* delta; a history at capacity gives its oldest delta to the base tree.
TreeDataAppend(t, updates) ==
    LET live == LiveTree(t)
        next == ApplyUpdates(live, updates)
        delta == [pre_root |-> TreeRoot(live), post_root |-> TreeRoot(next),
                  leaf_updates |-> updates]
        grown == Append(t.history, delta)
    IN  [tree |-> IF OverCapacity(grown) THEN Squash(t.tree, grown[1]) ELSE t.tree,
         history |-> IF OverCapacity(grown) THEN Tail(grown) ELSE grown,
         roots |-> Append(t.roots, TreeRoot(next))]

\* delete(indices): append with the value 0 at each index.
TreeDataDelete(t, indices) ==
    TreeDataAppend(t, [i \in 1..Len(indices) |-> [index |-> indices[i], value |-> EmptyLeaf]])

\* The snapshots whose root is `root` (by their number of deltas).
SnapshotsAt(t, root) ==
    {k \in 0..Len(t.history) : TreeRoot(Snapshot(t, k)) = root}

\* inclusion_proof(identity, root): root = NoRoot stands for None.  The
\* snapshot with that root is located, then the highest index holding the
\* identity; the proof is the sibling on the path.  Both misses are None to
\* the caller.
InclusionProof(t, identity, root) ==
    LET r == IF root = NoRoot THEN CurrentRoot(t) ELSE root
        ks == SnapshotsAt(t, r)
    IN  IF ks = {} THEN [kind |-> "RootNotRetained"]
        ELSE LET leaves == Snapshot(t, CHOOSE k \in ks : TRUE)
                 at == {i \in LeafIndices : leaves[i] = identity}
             IN  IF at = {} THEN [kind |-> "LeafNotFound"]
                 ELSE LET i == CHOOSE j \in at : \A m \in at : m <= j
                      IN  [kind |-> "Proof", index |-> i, sibling |-> leaves[1 - i]]

\* The standard verifier: the path from the leaf hashes up to the root.
Verifies(proof, identity, root) ==
    root = IF proof.index = 0 THEN Hash(identity, proof.sibling)
           ELSE Hash(proof.sibling, identity)

\* A caller appends a batch to the TreeData.
TreeAppend ==
    /\ Len(td.roots) <= MaxBatches
    /\ \E u \in UpdatesOver(Identities) : td' = TreeDataAppend(td, u)
    /\ UNCHANGED <<bridgeVars, retryVars, mainVars, blocks, tu, cu>>

\* A caller deletes the leaves at some indices.
TreeDelete ==
    /\ Len(td.roots) <= MaxBatches
    /\ \E ix \in {<<0>>, <<1>>, <<0, 1>>} : td' = TreeDataDelete(td, ix)
    /\ UNCHANGED <<bridgeVars, retryVars, mainVars, blocks, tu, cu>>

NextTree ==
    \/ TreeAppend
    \/ TreeDelete

\* The watcher with a listener on its channel.
NextListen ==
    \/ ListenSpawnRoot
    \/ ListenInsertRoot
    \/ ListenSubscribe
    \/ WatcherStream
    \/ WatcherEvent
    \/ WatcherStreamEnd
    \/ ListenRecv
    \/ ListenPauseOver
    \/ ListenRestOver

\* ------------------------------------------------------------ block scanner
\* creation_block: the first block the scanners look at.
CreationBlock == 1

\* What a block carries for the filter: no log, a log of a well-formed write,
\* a log that does not decode ("bad"), or a log of a write whose observed
\* postRoot is not the root the batch produces locally ("mismatch").
LogKinds == {"none", "ok", "bad", "mismatch"}

Min(a, b) == IF a < b THEN a ELSE b

ChainHead == Len(blocks)

RECURSIVE LogsIn(_, _)
LogsIn(from, to) ==
    IF from > to THEN <<>>
    ELSE (IF blocks[from] = "none" THEN <<>> ELSE <<blocks[from]>>) \o LogsIn(from + 1, to)

\* Mutant: the cursor moves on by a window even past the head.
BlockScannerNextPastHead(cursor) ==
    [logs |-> LogsIn(cursor, Min(cursor + WindowSize, ChainHead)),
     to |-> Min(cursor + WindowSize, ChainHead),
     cursor |-> cursor + WindowSize + 1]

\* BlockScanner::next: the logs of [cursor, min(cursor + W, head)] and the
\* cursor after them; nothing, and no advance, when the cursor is past the head.
BlockScannerNext(cursor) ==
    IF cursor > ChainHead
    THEN [logs |-> <<>>, to |-> cursor - 1, cursor |-> cursor]
    ELSE [logs |-> LogsIn(cursor, Min(cursor + WindowSize, ChainHead)),
          to |-> Min(cursor + WindowSize, ChainHead),
          cursor |-> Min(cursor + WindowSize, ChainHead) + 1]

HasBad(logs) == \E i \in 1..Len(logs) : logs[i] = "bad"

\* A block is mined on the synced chain.
NewBlock ==
    /\ ChainHead < MaxHead
    /\ \E k \in LogKinds : blocks' = Append(blocks, k)
    /\ UNCHANGED <<bridgeVars, retryVars, mainVars, td, tu, cu>>

\* ------------------------------------------------------------ tree sync task
\* TreeUpdater::new: nothing synced yet, the scanner at creation_block.
\* `last` notes the latest sync_to_head call: its result, the cursor and the
\* chain head it started from, and the batches it applied.
NoCall == [result |-> "none", error |-> "none", before |-> CreationBlock,
           head |-> 0, applied |-> 0]

TreeUpdaterNew == [pc |-> "unspawned", synced |-> FALSE, cursor |-> CreationBlock,
                   first |-> "none", last |-> NoCall]

\* The write the transaction of the log in block n decodes to:
\* registerIdentities(startIndex, [commitment]).
LogUpdates(n) ==
    <<[index |-> n % NumLeaves, value |-> 1 + (n % NumIdentities)]>>

\* Steps 4-5 over the logs of blocks from..to, in chain order: each write is
\* applied as one batch; a batch whose root is not the observed postRoot stops
\* the sync after it was applied.
RECURSIVE ApplyBlocks(_, _, _)
ApplyBlocks(t, from, to) ==
    IF from > to THEN [td |-> t, mismatch |-> FALSE]
    ELSE IF blocks[from] = "none" THEN ApplyBlocks(t, from + 1, to)
    ELSE IF blocks[from] = "mismatch"
         THEN [td |-> TreeDataAppend(t, LogUpdates(from)), mismatch |-> TRUE]
         ELSE ApplyBlocks(TreeDataAppend(t, LogUpdates(from)), from + 1, to)

\* TreeUpdater::sync_to_head: the outcomes of one call.  A middleware error may
\* end any call; a log that does not decode ends it before anything is
\* applied, a root mismatch after the batch was applied, both with the cursor
\* where it was; otherwise the batches are applied and the cursor advanced.
TreeSyncToHead(cursor, t) ==
    LET n == BlockScannerNext(cursor)
        a == ApplyBlocks(t, cursor, n.to)
    IN
    {[result |-> "err", error |-> "Middleware", cursor |-> cursor, td |-> t]} \cup
    (IF HasBad(n.logs)
     THEN {[result |-> "err", error |-> "Decoding", cursor |-> cursor, td |-> t]}
     ELSE IF a.mismatch
     THEN {[result |-> "err", error |-> "RootMismatch", cursor |-> cursor, td |-> a.td]}
     ELSE {[result |-> "ok", error |-> "none", cursor |-> n.cursor, td |-> a.td]})

\* The note of a call that started at `cursor` with tree data `t`.
TreeCall(o, cursor, t) ==
    [result |-> o.result, error |-> o.error, before |-> cursor, head |-> ChainHead,
     applied |-> Len(o.td.roots) - Len(t.roots)]

\* WorldTree::spawn: the task is handed to tokio::spawn.
TreeSpawn ==
    /\ tu.pc = "unspawned"
    /\ tu' = [tu EXCEPT !.pc = "first"]
    /\ UNCHANGED <<bridgeVars, retryVars, mainVars, td, blocks, cu>>

\* Mutant: the flag is stored whatever the first sync returned.
SyncedAfterFirstAlways(result) == TRUE

\* The value of `synced` after the first sync_to_head returned `result`:
\* `?` returns on an error before synced.store(true, Relaxed) runs.
SyncedAfterFirst(result) == result = "ok"

\* tree_updater.sync_to_head(&tree_data).await?; tree_updater.synced.store(true)
TreeFirstSync ==
    /\ tu.pc = "first"
    /\ \E o \in TreeSyncToHead(tu.cursor, td) :
         /\ tu' = [tu EXCEPT !.pc = IF o.result = "ok" THEN "loop" ELSE "done_err",
                             !.cursor = o.cursor,
                             !.first = o.result,
                             !.synced = SyncedAfterFirst(o.result),
                             !.last = TreeCall(o, tu.cursor, td)]
         /\ td' = o.td
    /\ UNCHANGED <<bridgeVars, retryVars, mainVars, blocks, cu>>

\* loop { tree_updater.sync_to_head(&tree_data).await?; ... }
TreeLoopSync ==
    /\ tu.pc = "loop"
    /\ \E o \in TreeSyncToHead(tu.cursor, td) :
         /\ tu' = [tu EXCEPT !.pc = IF o.result = "ok" THEN "sleep" ELSE "done_err",
                             !.cursor = o.cursor,
                             !.last = TreeCall(o, tu.cursor, td)]
         /\ td' = o.td
    /\ UNCHANGED <<bridgeVars, retryVars, mainVars, blocks, cu>>

\* tokio::time::sleep(Duration::from_secs(5)).await, then the next iteration
TreeWake ==
    /\ tu.pc = "sleep"
    /\ tu' = [tu EXCEPT !.pc = "loop"]
    /\ UNCHANGED <<bridgeVars, retryVars, mainVars, td, blocks, cu>>

\* ------------------------------------------------------------ claim sync task
\* ClaimUpdater::new: the scanner at creation_block.
ClaimUpdaterNew == [pc |-> "unspawned", cursor |-> CreationBlock, printed |-> 0,
                    last |-> NoCall]

\* ClaimUpdater::sync_to_head: a middleware error from the scanner is returned;
\* no logs: Ok; otherwise every log is printed, and a log whose data does not
\* decode panics in unwrap().
ClaimSyncToHead(cursor) ==
    LET n == BlockScannerNext(cursor) IN
    {[result |-> "err", error |-> "Middleware", cursor |-> cursor, printed |-> 0]} \cup
    (IF HasBad(n.logs)
     THEN {[result |-> "panic", error |-> "Decoding", cursor |-> n.cursor, printed |-> 0]}
     ELSE {[result |-> "ok", error |-> "none", cursor |-> n.cursor,
            printed |-> Len(n.logs)]})

\* The note of a call that started at `cursor`.
ClaimCall(o, cursor) ==
    [result |-> o.result, error |-> o.error, before |-> cursor, head |-> ChainHead,
     applied |-> o.printed]

ClaimAfter(pc, result) ==
    CASE result = "ok" -> pc
      [] result = "err" -> "done_err"
      [] OTHER -> "done_panic"

\* ClaimStorage::spawn: the task is handed to tokio::spawn.
ClaimSpawn ==
    /\ cu.pc = "unspawned"
    /\ cu' = [cu EXCEPT !.pc = "first"]
    /\ UNCHANGED <<bridgeVars, retryVars, mainVars, td, blocks, tu>>

\* claim_updater.sync_to_head(&db).await?; then the sync time is logged
ClaimFirstSync ==
    /\ cu.pc = "first"
    /\ \E o \in ClaimSyncToHead(cu.cursor) :
         cu' = [cu EXCEPT !.pc = ClaimAfter("loop", o.result),
                          !.cursor = o.cursor, !.printed = o.printed,
                          !.last = ClaimCall(o, cu.cursor)]
    /\ UNCHANGED <<bridgeVars, retryVars, mainVars, td, blocks, tu>>

\* loop { claim_updater.sync_to_head(&db).await?; ... }
ClaimLoopSync ==
    /\ cu.pc = "loop"
    /\ \E o \in ClaimSyncToHead(cu.cursor) :
         cu' = [cu EXCEPT !.pc = ClaimAfter("sleep", o.result),
                          !.cursor = o.cursor, !.printed = o.printed,
                          !.last = ClaimCall(o, cu.cursor)]
    /\ UNCHANGED <<bridgeVars, retryVars, mainVars, td, blocks, tu>>

\* tokio::time::sleep(SYNC_TO_HEAD_SLEEP_SECONDS).await, then the next iteration
ClaimWake ==
    /\ cu.pc = "sleep"
    /\ cu' = [cu EXCEPT !.pc = "loop"]
    /\ UNCHANGED <<bridgeVars, retryVars, mainVars, td, blocks, tu>>

InitSync ==
    /\ blocks = <<>>
    /\ tu = TreeUpdaterNew
    /\ cu = ClaimUpdaterNew
    /\ td = TreeDataNew

NextSync ==
    \/ NewBlock
    \/ TreeSpawn
    \/ TreeFirstSync
    \/ TreeLoopSync
    \/ TreeWake
    \/ ClaimSpawn
    \/ ClaimFirstSync
    \/ ClaimLoopSync
    \/ ClaimWake

\* ------------------------------------------------------------ retry policy
\* RetryClientBuilder::rate_limit_retries(10) and ::timeout_retries(3)
RateLimitRetries == 10
TimeoutRetries == 3

U64Max == Pow(2, U64Bits) - 1

\* http::StatusCode::TOO_MANY_REQUESTS
TooManyRequests == 429

\* A JSON number as serde_json holds it: PosInt, NegInt or Float; a Float is
\* given in tenths.  Other JSON values are "String" and "Null".
JsonValues ==
    {[t |-> "PosInt", v |-> n] : n \in {0, 2, U64Max}}
    \cup {[t |-> "NegInt", v |-> 0 - 3]}
    \cup {[t |-> "Float", v |-> x] : x \in {0 - 15, 0, 5, 20, 25, (U64Max + 2) * 10}}
    \cup {[t |-> "String", v |-> 0], [t |-> "Null", v |-> 0]}

\* JsonRpcError.data: None, or a value whose ["rate"]["backoff_seconds"] is
\* the given JSON value (Null when the path is absent).
DataValues == {[present |-> FALSE, backoff_seconds |-> [t |-> "Null", v |-> 0]]}
              \cup {[present |-> TRUE, backoff_seconds |-> j] : j \in JsonValues}

NoData == [present |-> FALSE, backoff_seconds |-> [t |-> "Null", v |-> 0]]

Codes == {429, 0 - 32603, 0 - 32005, 0 - 32016, 0 - 32000, 0, 428}

Messages ==
    {"header not found",
     "daily request count exceeded, request rate limited",
     "project ID request rate limit exceeded",
     "rate limit",
     "Header not found",
     "header not found, retry",
     "execution reverted",
     ""}

JsonRpcErrors ==
    {[variant |-> "JsonRpcError", code |-> c, message |-> m, data |-> d] :
        c \in Codes, m \in Messages, d \in DataValues}

\* reqwest errors: the HTTP status they carry (0: none), and whether they are
\* a timeout or connection failure.
ReqwestErrors ==
    {[variant |-> "ReqwestError", status |-> st, connectivity |-> FALSE] :
        st \in {429, 500, 200, 0}}
    \cup {[variant |-> "ReqwestError", status |-> 0, connectivity |-> TRUE]}

\* The text of a response that failed to deserialize as JSON-RPC.
Texts ==
    {[kind |-> "invalid"], [kind |-> "no_error_field"], [kind |-> "bad_error_shape"]}
    \cup {[kind |-> "error_object",
           error |-> [variant |-> "JsonRpcError", code |-> c, message |-> m, data |-> d]] :
            c \in {429, 0 - 32016, 0 - 32000},
            m \in {"header not found", "rate limit", "execution reverted"},
            d \in {NoData, [present |-> TRUE, backoff_seconds |-> [t |-> "PosInt", v |-> 2]]}}

SerdeJsonErrors == {[variant |-> "SerdeJson", text |-> t] : t \in Texts}

Errors == JsonRpcErrors \cup ReqwestErrors \cup SerdeJsonErrors

\* str::contains
Contains(m, p) ==
    \E i \in 1..(Len(m) - Len(p) + 1) : SubSeq(m, i, i + Len(p) - 1) = p

\* Mutant: the infura code -32005 is not recognised.
ShouldRetryJsonRpcErrorNo32005(err) ==
    IF err.code = 429 THEN TRUE
    ELSE IF err.code = 0 - 32603 THEN TRUE
    ELSE IF err.code = 0 - 32016 /\ Contains(err.message, "rate limit") THEN TRUE
    ELSE CASE err.message = "header not found" -> TRUE
           [] err.message = "daily request count exceeded, request rate limited" -> TRUE
           [] OTHER -> FALSE

\* fn should_retry_json_rpc_error(err: &JsonRpcError) -> bool
ShouldRetryJsonRpcError(err) ==
    IF err.code = 429 THEN TRUE
    ELSE IF err.code = 0 - 32603 THEN TRUE
    ELSE IF err.code = 0 - 32005 THEN TRUE
    ELSE IF err.code = 0 - 32016 /\ Contains(err.message, "rate limit") THEN TRUE
    ELSE CASE err.message = "header not found" -> TRUE
           [] err.message = "daily request count exceeded, request rate limited" -> TRUE
           [] OTHER -> FALSE

\* Mutant: no text deserializes as Resp.
ParsesAsRespNever(text) == FALSE

\* serde_json::from_str::<Resp>(text): Ok exactly for an object whose `error`
\* field is a well-formed JsonRpcError.
ParsesAsResp(text) == text.kind = "error_object"

\* Mutant: a transport error is retried on any status it carries.
ReqwestShouldRetryAnyStatus(err) == err.status # 0

\* err.status() == Some(http::StatusCode::TOO_MANY_REQUESTS)
ReqwestShouldRetry(err) == err.status = TooManyRequests

\* CustomRetryPolicy::should_retry
ShouldRetry(err) ==
    CASE err.variant = "ReqwestError" -> ReqwestShouldRetry(err)
      [] err.variant = "JsonRpcError" -> ShouldRetryJsonRpcError(err)
      [] err.variant = "SerdeJson" ->
            IF ParsesAsResp(err.text) THEN ShouldRetryJsonRpcError(err.text.error)
            ELSE FALSE

\* Value::as_u64: Some only for a non-negative integer.
AsU64(j) == IF j.t = "PosInt" THEN [some |-> TRUE, v |-> j.v] ELSE [some |-> FALSE, v |-> 0]

\* Value::as_f64: Some for every number; the result in tenths.
AsF64(j) ==
    CASE j.t \in {"PosInt", "NegInt"} -> [some |-> TRUE, v |-> j.v * 10]
      [] j.t = "Float" -> [some |-> TRUE, v |-> j.v]
      [] OTHER -> [some |-> FALSE, v |-> 0]

\* `x as u64` of an f64 (in tenths): truncated towards zero and saturated.
F64AsU64(x) == IF x < 0 THEN 0 ELSE Min(x \div 10, U64Max)

None == [kind |-> "None", secs |-> 0]
Some(n) == [kind |-> "Some", secs |-> n]

\* Mutant: the float is rounded up to the next whole second only when it has a
\* fraction.
FloatSecondsCeil(x) ==
    {Some(IF x < 0 THEN 0 ELSE Min((x + 9) \div 10, U64Max))}

\* Duration::from_secs(seconds as u64 + 1): the addition overflows at
\* u64::MAX, which panics with overflow checks and wraps to 0 without.
FloatSeconds(x) ==
    IF F64AsU64(x) = U64Max
    THEN {[kind |-> "Panic", secs |-> 0], Some(0)}
    ELSE {Some(F64AsU64(x) + 1)}

\* Mutant: the hint is also taken from a JSON-RPC error embedded in the text
\* of a malformed response.
BackoffHintEmbedded(err) ==
    LET e == IF err.variant = "SerdeJson" /\ ParsesAsResp(err.text)
             THEN err.text.error ELSE err
    IN
    IF e.variant = "JsonRpcError"
    THEN IF ~e.data.present THEN {None}
         ELSE LET bs == e.data.backoff_seconds IN
              IF AsU64(bs).some THEN {Some(AsU64(bs).v)}
              ELSE IF AsF64(bs).some THEN FloatSeconds(AsF64(bs).v)
              ELSE {None}
    ELSE {None}

\* CustomRetryPolicy::backoff_hint: the outcomes of one call.
BackoffHint(err) ==
    IF err.variant = "JsonRpcError"
    THEN IF ~err.data.present THEN {None}
         ELSE LET bs == err.data.backoff_seconds IN
              IF AsU64(bs).some THEN {Some(AsU64(bs).v)}
              ELSE IF AsF64(bs).some THEN FloatSeconds(AsF64(bs).v)
              ELSE {None}
    ELSE {None}

NoError == [variant |-> "None"]

\* The record of the policy's last answers: none yet.
PolicyNew == [err |-> NoError, retry |-> FALSE, hint |-> None]

\* The policy is asked about an error (it keeps no state: the answers do not
\* depend on the request in flight, so they are taken with none in flight).
Classify ==
    /\ rq.state = "idle"
    /\ \E e \in Errors : \E h \in BackoffHint(e) :
         pol' = [err |-> e, retry |-> ShouldRetry(e), hint |-> h]
    /\ UNCHANGED <<bridgeVars, syncVars, mainVars, rq>>

\* ------------------------------------------------------------ retry client
\* What the RPC endpoint may answer to one attempt.
Responses ==
    {[variant |-> "Ok"]}
    \cup {[variant |-> "ReqwestError", status |-> st, connectivity |-> FALSE] : st \in {429, 500}}
    \cup {[variant |-> "ReqwestError", status |-> 0, connectivity |-> TRUE]}
    \cup {[variant |-> "JsonRpcError", code |-> 0 - 32005, message |-> "rate limit",
           data |-> [present |-> TRUE, backoff_seconds |-> [t |-> "Float", v |-> 20]]],
          [variant |-> "JsonRpcError", code |-> 0 - 32000, message |-> "execution reverted",
           data |-> NoData]}

RequestNew ==
    [state |-> "idle", attempts |-> 0, rate_limit_retry_number |-> 0,
     timeout_retries |-> 0, n429 |-> 0, other |-> FALSE, backoff |-> None]

\* A request enters the retry client.
RequestStart ==
    /\ rq.state = "idle"
    /\ rq' = [rq EXCEPT !.state = "pending"]
    /\ pol' = PolicyNew
    /\ UNCHANGED <<bridgeVars, syncVars, mainVars>>

\* One attempt that succeeds: the request returns its value.
AttemptOk ==
    /\ rq.state = "pending"
    /\ rq' = [rq EXCEPT !.state = "ok", !.attempts = @ + 1]
    /\ UNCHANGED <<bridgeVars, syncVars, mainVars, pol>>

\* The state of the request after an attempt failed with `err`, the hint of
\* the policy being `h`: a retriable error is retried until more than
\* rate_limit_retries of them were seen, a connectivity error up to
\* timeout_retries times, and any other error is returned.
AfterError(err, h) ==
    LET base == [rq EXCEPT !.attempts = @ + 1,
                           !.n429 = IF err.variant = "ReqwestError" /\ err.status = 429
                                    THEN @ + 1 ELSE @,
                           !.other = @ \/ ~(err.variant = "ReqwestError" /\ err.status = 429)]
    IN
    IF ShouldRetry(err)
    THEN IF rq.rate_limit_retry_number + 1 > RateLimitRetries
         THEN [base EXCEPT !.state = "err_retries",
                           !.rate_limit_retry_number = @ + 1]
         ELSE IF h.kind = "Panic"
         THEN [base EXCEPT !.state = "panic", !.rate_limit_retry_number = @ + 1]
         ELSE [base EXCEPT !.rate_limit_retry_number = @ + 1, !.backoff = h]
    ELSE IF rq.timeout_retries < TimeoutRetries /\ err.variant = "ReqwestError"
            /\ err.connectivity
         THEN [base EXCEPT !.timeout_retries = @ + 1]
         ELSE [base EXCEPT !.state = "err_provider"]

\* One attempt that fails.
AttemptErr ==
    /\ rq.state = "pending"
    /\ \E err \in Responses \ {[variant |-> "Ok"]} : \E h \in BackoffHint(err) :
         rq' = AfterError(err, h)
    /\ UNCHANGED <<bridgeVars, syncVars, mainVars, pol>>

InitRetry ==
    /\ pol = PolicyNew
    /\ rq = RequestNew

NextRetry ==
    \/ Classify
    \/ RequestStart
    \/ AttemptOk
    \/ AttemptErr

\* ------------------------------------------------------------ service binary
Tasks == 1..NumTasks

\* A task of the service ends: Ok(()), Err(e), or a panic (a JoinError).
TaskEnds(t) ==
    /\ mn.pc = "joining"
    /\ tasks[t] = "running"
    /\ \E r \in {"ok", "err", "panic"} : tasks' = [tasks EXCEPT ![t] = r]
    /\ UNCHANGED <<bridgeVars, syncVars, retryVars, mn>>

\* Mutant: main goes on to the next handle after an error.
MainAfterResultIgnoreErrors(r) == "joining"

\* `result??` : a JoinError or a task error makes main return it.
MainAfterResult(r) == IF r = "ok" THEN "joining" ELSE "exit_err"

\* while let Some(result) = handles.next().await { error!(result); result??; }
\* FuturesUnordered yields a finished handle, each handle once.
MainJoin(t) ==
    /\ mn.pc = "joining"
    /\ t \notin mn.yielded
    /\ tasks[t] # "running"
    /\ mn' = [mn EXCEPT !.pc = MainAfterResult(tasks[t]),
                        !.yielded = @ \cup {t},
                        !.log = Append(@, [task |-> t, result |-> tasks[t]])]
    /\ UNCHANGED <<bridgeVars, syncVars, retryVars, tasks>>

\* handles.next() returns None: shutdown_tracer_provider(); Ok(())
MainReturn ==
    /\ mn.pc = "joining"
    /\ mn.yielded = Tasks
    /\ mn' = [mn EXCEPT !.pc = "exit_ok"]
    /\ UNCHANGED <<bridgeVars, syncVars, retryVars, tasks>>

InitMain ==
    /\ tasks = [t \in Tasks |-> "running"]
    /\ mn = [pc |-> "joining", yielded |-> {}, log |-> <<>>]

MainStep == (\E t \in Tasks : MainJoin(t)) \/ MainReturn

NextMain ==
    \/ \E t \in Tasks : TaskEnds(t)
    \/ \E t \in Tasks : MainJoin(t)
    \/ MainReturn

\* ------------------------------------------------------------ specifications
Init == InitBridge /\ InitSync /\ InitRetry /\ InitMain

\* The state bridge service.
SpecBridge == Init /\ [][NextBridge]_vars

\* The root watcher and a listener on its broadcast channel.
SpecListen == Init /\ [][NextListen]_vars

\* The sync tasks.
SpecSync == Init /\ [][NextSync]_vars

\* The retry policy and the retry client.
SpecRetry == Init /\ [][NextRetry]_vars

\* TreeData under any sequence of append and delete.
SpecTree == Init /\ [][NextTree]_vars

\* The join loop of the binary; the runtime keeps polling main.
SpecMain == Init /\ [][NextMain]_vars /\ WF_vars(MainStep)

\* ============================================================ claims

SpawnedBridges == 1..svc.spawned

\* Nothing is left for the watcher or a bridge to do until the chain moves:
\* the watcher streams and has published every event its stream yields, every
\* bridge waits for a root and has none queued.
Quiescent ==
    /\ wt.pc = "streaming"
    /\ wt.next = Len(chain)
    /\ \A b \in SpawnedBridges : br[b].pc = "Idle" /\ br[b].rxnext = Len(sent)

\* C1 (as a final result): once spawn has returned with a bridge added, a root
\* inserted afterwards is relayed: when watcher and bridges have nothing left
\* to do, the downstream latestRoot of every bridge is the last root inserted.
C1_RelayedWhenQuiet ==
    (svc.pc = "returned" /\ svc.spawned >= 1 /\ Len(chain) > svc.returnedAt /\ Quiescent)
        => \A b \in SpawnedBridges : downstream[b] = LatestRoot

\* C2: the roots handed to the broadcast channel are exactly the postRoots of
\* the events the stream has yielded, one per event and in emission order.
C2_PublishedInOrder ==
    /\ Len(published) = wt.next - wt.start
    /\ \A i \in 1..Len(published) :
          U256Limbs(published[i]) = chain[wt.start + i].post_root

C2_Witness ==
    /\ Len(published) >= 2
    /\ published[1] # published[2]
    /\ chain[wt.start + 1].pre_root # chain[wt.start + 1].post_root

\* C3: what a subscriber has received is an order-preserving subsequence of
\* the published sequence: each received root is the one published at its
\* position, and the positions strictly increase.
C3_OrderPreserving ==
    \A got \in {br[b].received : b \in Bridges} \cup {ls.received} :
        \A i \in 1..Len(got) :
            /\ got[i].seq \in 1..Len(published)
            /\ published[got[i].seq] = got[i].root
            /\ i > 1 => got[i - 1].seq < got[i].seq

C3_Witness ==
    /\ ls.lagged
    /\ Len(ls.received) >= 2
    /\ ls.received[1].seq > 1

\* C4: `synced` is false until the first sync_to_head has returned Ok, true
\* from then on and never reset; a first sync_to_head that fails leaves it
\* false and ends the task with the error.
C4_SyncedFlag ==
    /\ [](/\ tu.synced <=> tu.first = "ok"
          /\ tu.pc \in {"unspawned", "first"} => tu.first = "none"
          /\ tu.first = "err" => tu.pc = "done_err")
    /\ [][tu.synced => tu'.synced]_vars

C4_Witness == tu.synced /\ tu.pc = "done_err" /\ tu.cursor > CreationBlock

\* C5: should_retry on a JSON-RPC error is true exactly for the codes 429,
\* -32603 and -32005, for -32016 with a message containing "rate limit", and
\* for the two exact messages.
C5_JsonRpcRetry ==
    pol.err.variant = "JsonRpcError" =>
        (pol.retry <=>
            \/ pol.err.code \in {429, 0 - 32603, 0 - 32005}
            \/ pol.err.code = 0 - 32016 /\ Contains(pol.err.message, "rate limit")
            \/ pol.err.message \in
                  {"header not found",
                   "daily request count exceeded, request rate limited"})

C5_Witness ==
    /\ pol.err.variant = "JsonRpcError"
    /\ pol.err.code = 0 - 32016
    /\ pol.err.message = "project ID request rate limit exceeded"
    /\ pol.retry

\* C6: a transport error is retried exactly when its status is 429; a request
\* whose only failures are k <= 10 HTTP 429 responses surfaces no error, and
\* once an attempt succeeds it has made exactly k + 1 attempts (four for
\* three 429 responses).
C6_Retry429 ==
    /\ pol.err.variant = "ReqwestError" => (pol.retry <=> pol.err.status = 429)
    /\ (~rq.other /\ rq.n429 <= 10) =>
          /\ rq.state \in {"idle", "pending", "ok"}
          /\ rq.rate_limit_retry_number = rq.n429
          /\ rq.state = "ok" => rq.attempts = rq.n429 + 1
    /\ (~rq.other /\ rq.n429 = 3 /\ rq.state = "ok") => rq.attempts = 4

C6_Witness == rq.state = "ok" /\ ~rq.other /\ rq.n429 = 3 /\ rq.attempts = 4

\* The seconds of a backoff_seconds value (in tenths) rounded up to a whole
\* second.
CeilSeconds(x) == (x + 9) \div 10

\* C7 (as claimed): the hint is n seconds for an integer n, the ceiling of x
\* for a float x, and none when the field is absent.
C7_HintIsCeiling ==
    pol.err.variant = "JsonRpcError" =>
        LET bs == pol.err.data.backoff_seconds IN
        /\ (pol.err.data.present /\ bs.t \in {"PosInt", "NegInt"}) => pol.hint = Some(bs.v)
        /\ (pol.err.data.present /\ bs.t = "Float") => pol.hint = Some(CeilSeconds(bs.v))
        /\ ~pol.err.data.present => pol.hint = None

\* C7 (amended): the hint is n seconds for a non-negative integer n; for any
\* other number x (a float, a negative integer) it is floor(x) + 1 seconds,
\* x counting as 0 when negative and the sum overflowing (a panic, or 0
\* seconds) from u64::MAX on; none when the field is absent or no number.
C7_HintIsFloorPlusOne ==
    pol.err.variant = "JsonRpcError" =>
        LET bs == pol.err.data.backoff_seconds
            tenths == IF bs.t = "Float" THEN bs.v ELSE bs.v * 10
            floor == IF tenths < 0 THEN 0 ELSE tenths \div 10
        IN
        /\ (pol.err.data.present /\ bs.t = "PosInt") => pol.hint = Some(bs.v)
        /\ (pol.err.data.present /\ bs.t \in {"NegInt", "Float"} /\ floor < U64Max)
              => pol.hint = Some(floor + 1)
        /\ (pol.err.data.present /\ bs.t \in {"NegInt", "Float"} /\ floor >= U64Max)
              => pol.hint \in {[kind |-> "Panic", secs |-> 0], Some(0)}
        /\ (~pol.err.data.present \/ bs.t \in {"String", "Null"}) => pol.hint = None

C7_Witness ==
    /\ pol.err.variant = "JsonRpcError"
    /\ pol.err.data.present
    /\ pol.err.data.backoff_seconds = [t |-> "Float", v |-> 20]
    /\ pol.hint = Some(3)

\* C8 (as claimed): a stream termination does not finish the watcher task.
C8_WatcherSurvivesStreamEnd == wt.ended => wt.pc \in {"spawned", "streaming"}

\* C8 (amended): when the event stream terminates the watcher task finishes
\* with Ok(()); it does not rebuild the subscription and publishes nothing
\* from then on, neither historical roots nor the roots of later events.
C8_WatcherEndsWithStream ==
    /\ [](wt.ended => wt.pc = "done_ok")
    /\ [][wt.ended => (wt' = wt /\ published' = published /\ sent' = sent)]_vars

C8_Witness ==
    /\ wt.ended
    /\ wt.pc = "done_ok"
    /\ Len(published) >= 1
    /\ Len(chain) > wt.next

\* The tasks the service spawned that ended with a terminal error.
WatcherFailed == wt.pc = "done_err"
FailedBridges == {b \in Bridges : br[b].pc = "done_err"}
RunningBridges == {b \in Bridges : br[b].pc \in {"Idle", "Cooling", "Relaying"}}
WatcherRunning == wt.pc \in {"spawned", "streaming"}

Logged == {mn.log[i] : i \in 1..Len(mn.log)}
Failed(t) == tasks[t] \in {"err", "panic"}

\* C10: main ends with an error whenever a task has finished with an error or
\* a panic, that result being the last one logged; it ends with Ok only when
\* every task has finished without error.
C10_ExitCode ==
    /\ [](/\ mn.pc = "exit_ok" => \A t \in Tasks : tasks[t] = "ok"
          /\ mn.pc = "exit_err" =>
                /\ Len(mn.log) >= 1
                /\ Failed(mn.log[Len(mn.log)].task)
                /\ mn.log[Len(mn.log)].result = tasks[mn.log[Len(mn.log)].task]
          /\ \A t \in mn.yielded : [task |-> t, result |-> tasks[t]] \in Logged
          /\ mn.pc = "joining" => \A t \in mn.yielded : tasks[t] = "ok")
    /\ ((\E t \in Tasks : Failed(t)) ~> mn.pc = "exit_err")

C10_Witness ==
    /\ mn.pc = "exit_err"
    /\ Len(mn.log) = 2
    /\ mn.log[1].result = "ok"
    /\ mn.log[2].result = "panic"
    /\ \E t \in Tasks : tasks[t] = "running"

\* C11: a propagateRoot transaction is in flight only for a root other than
\* last_relayed_root and only once relaying_period has elapsed since the last
\* relay; every successful relay after the first comes at least
\* relaying_period after the one before it.
C11_RelayDiscipline ==
    \A b \in Bridges :
        /\ br[b].pc = "Relaying" =>
              /\ br[b].root # br[b].last_relayed_root
              /\ br[b].elapsed >= RelayingPeriod
        /\ \A i \in 1..Len(br[b].relay_gaps) : br[b].relay_gaps[i] >= RelayingPeriod

C11_Witness ==
    \E b \in Bridges :
        /\ Len(br[b].relay_gaps) >= 2
        /\ br[b].last_relayed_root = LatestRoot
        /\ downstream[b] = LatestRoot

\* The roots inclusion_proof accepts: every root for which it locates a
\* snapshot.
AllRoots == {Hash(l, r) : l \in LeafValues, r \in LeafValues}
AcceptedRoots ==
    {r \in AllRoots : \A id \in LeafValues : InclusionProof(td, id, r).kind # "RootNotRetained"}

BatchesAfter(i) == Len(td.roots) - i

\* C13 (as claimed): with H = 1, after two successive batches producing R1
\* then R2, R1 is reported as not retained while R2 is accepted.
C13_EvictedAfterOneBatch ==
    LET n == Len(td.roots) IN
    (HistorySize = 1 /\ n >= 3 /\ td.roots[n - 1] # td.roots[n]) =>
        /\ InclusionProof(td, EmptyLeaf, td.roots[n - 1]).kind = "RootNotRetained"
        /\ InclusionProof(td, EmptyLeaf, td.roots[n]).kind # "RootNotRetained"

\* C13 (amended): a root is accepted by inclusion_proof exactly while at most
\* H batches have been applied after it (after its latest occurrence): the
\* current root and the H roots before it are retained, the base tree holding
\* the oldest of them; with H = 1 both R1 and R2 are accepted after the two
\* batches, and the root before R1 is not.
C13_RetainedForHBatches ==
    /\ \A r \in AllRoots :
          (InclusionProof(td, EmptyLeaf, r).kind # "RootNotRetained")
              <=> \E i \in 1..Len(td.roots) :
                      td.roots[i] = r /\ BatchesAfter(i) <= HistorySize
    /\ \A i \in 1..Len(td.roots) : \A id \in Identities :
          LET p == InclusionProof(td, id, td.roots[i]) IN
          p.kind = "Proof" => Verifies(p, id, td.roots[i])

C13_Witness ==
    LET n == Len(td.roots) IN
    /\ n = HistorySize + 2
    /\ \A i \in 1..n : \A j \in 1..n : i # j => td.roots[i] # td.roots[j]
    /\ InclusionProof(td, EmptyLeaf, td.roots[n - HistorySize]).kind # "RootNotRetained"
    /\ InclusionProof(td, EmptyLeaf, td.roots[1]).kind = "RootNotRetained"
    /\ \E id \in Identities : InclusionProof(td, id, td.roots[n]).kind = "Proof"

\* C14: the scanner cursors never move back, move on only with a call that
\* returned Ok, and after a call that aborted (with an error or a panic) hold
\* the value they had before the call, so that the next scan returns the same
\* block range.
C14_CursorKeptOnAbort ==
    /\ tu.cursor >= tu.last.before
    /\ cu.cursor >= cu.last.before
    /\ tu.last.result # "ok" =>
          /\ tu.cursor = tu.last.before
          /\ BlockScannerNext(tu.cursor) = BlockScannerNext(tu.last.before)
    /\ cu.last.result # "ok" =>
          /\ cu.cursor = cu.last.before
          /\ BlockScannerNext(cu.cursor) = BlockScannerNext(cu.last.before)

SyncEnded(x) == x.pc \in {"done_ok", "done_err", "done_panic"}

\* C19: a sync task never finishes with Ok, and it has finished exactly when
\* its latest sync_to_head call returned an error.
C19_EndsOnlyOnReturnedError ==
    /\ tu.pc # "done_ok"
    /\ cu.pc # "done_ok"
    /\ SyncEnded(tu) <=> tu.last.result = "err"
    /\ SyncEnded(cu) <=> cu.last.result = "err"

C18_SerdeReclassified ==
    pol.err.variant = "SerdeJson" =>
        IF pol.err.text.kind = "error_object"
        THEN pol.retry = ShouldRetry(pol.err.text.error)
        ELSE pol.retry = FALSE

C18_Witness ==
    /\ pol.err.variant = "SerdeJson"
    /\ pol.err.text.kind = "error_object"
    /\ pol.err.text.error.code = 0 - 32016
    /\ pol.err.text.error.message = "rate limit"
    /\ pol.retry

\* C17: once spawn has returned, handles holds one entry per added bridge
\* and one for the watcher, the watcher's first and the bridges' in the order
\* they were added; exactly the added bridges run, each on a receiver of its
\* own that was subscribed during the call.
C17_HandlesRecorded ==
    svc.pc = "returned" =>
        /\ Len(svc.handles) = svc.state_bridges + 1
        /\ svc.handles[1] = [task |-> "root", id |-> 0]
        /\ wt.pc # "unspawned"
        /\ \A b \in Bridges :
              IF b <= svc.state_bridges
              THEN /\ svc.handles[b + 1] = [task |-> "bridge", id |-> b]
                   /\ br[b].pc # "unspawned"
                   /\ br[b].sub.pos <= br[b].rxnext
                   /\ br[b].rxnext <= Len(sent)
              ELSE br[b].pc = "unspawned"

C17_Witness ==
    /\ svc.pc = "returned"
    /\ svc.state_bridges = NumBridges
    /\ Len(svc.handles) = NumBridges + 1
    /\ \E b \in Bridges : Len(br[b].received) >= 1

\* C20: by the time spawn returns every added bridge holds its subscription,
\* so a root published from then on is put in the channel, behind the place
\* the bridge subscribed at, for every added bridge still running; a bridge
\* is never handed a root published before it subscribed; a root sent while
\* nobody is subscribed is put nowhere; and whatever the send returns, the
\* watcher goes on streaming.
C20_Subscriptions ==
    /\ [](/\ svc.pc = "returned" =>
                \A b \in Bridges : b <= svc.state_bridges => br[b].pc # "unspawned"
          /\ \A b \in Bridges : \A i \in 1..Len(br[b].received) :
                br[b].received[i].seq > br[b].sub.seq)
    /\ [][Len(published') > Len(published) =>
            /\ wt.pc = "streaming" /\ wt'.pc = "streaming"
            /\ NoReceivers => sent' = sent
            /\ \A b \in Receivers :
                  /\ sent' = Append(sent, [root |-> published'[Len(published')],
                                          seq |-> Len(published')])
                  /\ Len(sent') > br[b].sub.pos
            /\ svc.pc = "returned" =>
                  \A b \in Bridges :
                      b <= svc.state_bridges /\ br[b].pc # "done_err" => b \in Receivers]_vars

\* A bridge that subscribed after a root had been published to nobody, and
\* has received a root published after spawn returned.
C20_Witness ==
    /\ svc.pc = "returned"
    /\ \E b \in Bridges :
          /\ br[b].sub.seq >= 1
          /\ br[b].sub.pos = 0
          /\ Len(br[b].received) >= 1
          /\ br[b].received[1].seq > svc.publishedAt
    /\ wt.pc = "streaming"

\* C21: the watcher task finishes with an error only from creating the event
\* stream, before it has published anything; a streaming watcher leaves the
\* loop only to finish with Ok(()), on an error item as on the end of the
\* stream; a finished watcher publishes nothing more.
C21_WatcherTermination ==
    /\ [](/\ wt.pc = "done_err" => wt.item = "none" /\ published = <<>>
          /\ wt.item \in StreamItems => wt.pc = "done_ok")
    /\ [][/\ wt'.pc = "done_err" => wt.pc \in {"spawned", "done_err"}
          /\ wt.pc = "streaming" => wt'.pc \in {"streaming", "done_ok"}
          /\ wt.pc \in {"done_ok", "done_err"} =>
                wt' = wt /\ published' = published /\ sent' = sent]_vars

\* The stream gave an error item after a root had been published, and an
\* event emitted since has not been published.
C21_Witness ==
    /\ wt.item = "Err"
    /\ wt.pc = "done_ok"
    /\ Len(published) >= 1
    /\ Len(chain) > wt.next

\* C22: backoff_hint gives a hint only for an error of the JSON-RPC variant;
\* for a transport error and for a malformed-JSON error it gives none, also
\* when the malformed text embeds a JSON-RPC error that should_retry retries
\* and that carries backoff_seconds.
C22_HintOnlyForJsonRpc ==
    /\ pol.hint # None => pol.err.variant = "JsonRpcError"
    /\ pol.err.variant \in {"ReqwestError", "SerdeJson"} => pol.hint = None

C22_Witness ==
    /\ pol.err.variant = "SerdeJson"
    /\ pol.err.text.kind = "error_object"
    /\ pol.err.text.error.data # NoData
    /\ pol.err.text.error.data.backoff_seconds.t = "PosInt"
    /\ pol.retry
    /\ pol.hint = None

====
